---------------------------- MODULE Spec2Model ----------------------------
(***************************************************************************)
(* NEAT gen_reads.py: the windowed read-sampling driver (main).            *)
(*                                                                         *)
(* Floating point options (-c, -to, -E, -M) and the coverage multipliers   *)
(* are carried in hundredths: -c 0.02 is 2, the sentinel -1 is -100, the   *)
(* bound 0.3 is 30.  Python's None is the integer None below wherever the  *)
(* variable otherwise holds an integer.                                    *)
(***************************************************************************)
EXTENDS Integers, Sequences, FiniteSets, TLC

(* ------------------------------------------------------------------ *)
(* Bounds of the model                                                  *)
(* ------------------------------------------------------------------ *)
MaxSeed == 3

(* ------------------------------------------------------------------ *)
(* Program constants                                                    *)
(* ------------------------------------------------------------------ *)
window_target_scale == 100
low_cov_thresh == 50

None == 0 - 1000000000

ALLOWED_NUCL == {"A", "C", "G", "T"}

(* ------------------------------------------------------------------ *)
(* Generic helpers                                                      *)
(* ------------------------------------------------------------------ *)
Max2(a, b) == IF a >= b THEN a ELSE b
Min2(a, b) == IF a <= b THEN a ELSE b
Abs(a) == IF a < 0 THEN 0 - a ELSE a

SeqMax(s) == CHOOSE x \in {s[i] : i \in 1..Len(s)} : \A i \in 1..Len(s) : x >= s[i]

RECURSIVE SeqSum(_)
SeqSum(s) == IF s = <<>> THEN 0 ELSE s[1] + SeqSum(Tail(s))

RECURSIVE Flatten(_)
Flatten(ss) == IF ss = <<>> THEN <<>> ELSE ss[1] \o Flatten(Tail(ss))

Range(s) == {s[i] : i \in 1..Len(s)}

(* ------------------------------------------------------------------ *)
(* The process-wide random generator (module random)                    *)
(* ------------------------------------------------------------------ *)
\* random.seed(s): the generator state is a function of the seed alone
RandomSeed(s) == s % 65536
\* one draw advances the generator
RngNext(x) == (x * 25173 + 13849) % 65536
\* the value a draw delivers
RngVal(x) == RngNext(x) \div 16

(* ------------------------------------------------------------------ *)
(* Inputs: reference FASTA files                                        *)
(* A contig is its name, its length and its runs of N; every other      *)
(* base is ACGT[p % 4].                                                 *)
(* ------------------------------------------------------------------ *)
RefPool ==
    [refA |-> << [name |-> "chr1", len |-> 25000, n_runs |-> << <<5, 6>> >>] >>,
     refB |-> << [name |-> "chr1", len |-> 16000, n_runs |-> << <<130, 430>> >>],
                 [name |-> "chr2", len |-> 105, n_runs |-> <<>>] >>,
     refC |-> << [name |-> "chr1", len |-> 25000, n_runs |-> <<>>],
                 [name |-> "chr2", len |-> 12600, n_runs |-> <<>>] >>]

RefNames == {"refA", "refB"}

InNRun(ctg, p) == \E i \in 1..Len(ctg.n_runs) : ctg.n_runs[i][1] <= p /\ p < ctg.n_runs[i][2]

RefBase(ctg, p) == IF InNRun(ctg, p) THEN "N" ELSE <<"A", "C", "G", "T">>[(p % 4) + 1]

\* ref_index[chrom].seq[a:b] for 0 <= a
RefSlice(ctg, a, b) ==
    LET hi == Min2(b, ctg.len)
    IN  IF a >= hi THEN <<>> ELSE [i \in 1..(hi - a) |-> RefBase(ctg, a + i - 1)]

\* find_n_regions(ref_sequence, n_handling)['non_N']: the complement of the
\* runs of N at least n_handling[1] long
FindNonN(ctg, thr) ==
    LET big == SelectSeq(ctg.n_runs, LAMBDA r : r[2] - r[1] >= thr)
        gap(k) == << IF k = 0 THEN 0 ELSE big[k][2],
                     IF k = Len(big) THEN ctg.len ELSE big[k + 1][1] >>
        all == [k \in 1..(Len(big) + 1) |-> gap(k - 1)]
    IN  SelectSeq(all, LAMBDA g : g[1] < g[2])

(* ------------------------------------------------------------------ *)
(* Inputs: VCF files (as parse_vcf delivers them)                       *)
(* ------------------------------------------------------------------ *)
VcfRec(i, chrom, pos, ref, alts) ==
    [index |-> i, CHROM |-> chrom, POS |-> pos, REF |-> ref, alt_split |-> alts]

VcfPool ==
    [vcf1 |-> << VcfRec(0, "chr1", 2, <<"C">>, << <<"T">> >>),
                 VcfRec(1, "chr1", 3, <<"A">>, << <<"X">> >>),
                 VcfRec(2, "chr1", 6, <<"N">>, << <<"A">> >>),
                 VcfRec(3, "chr1", 9, <<"A">>, << <<"G">>, <<"R">> >>),
                 VcfRec(4, "chr1", 5, <<"A", "N">>, << <<"X">> >>),
                 VcfRec(5, "chr1", 13000, <<"T">>, << <<"A">> >>),
                 VcfRec(6, "chr1", 6, <<"A">>, << <<"C">> >>) >>,
     vcf2 |-> << VcfRec(0, "chr1", 13000, <<"T">>, << <<"A">> >>),
                 VcfRec(1, "chrX", 7, <<"A">>, << <<"C">> >>),
                 VcfRec(2, "chrY", 8, <<"A">>, << <<"C">> >>) >>,
     vcf3 |-> << VcfRec(0, "chr1", 14000, <<"T">>, << <<"A", "C">> >>),
                 VcfRec(1, "chrX", 7, <<"A">>, << <<"C">> >>),
                 VcfRec(2, "chr1", 25000, <<"T", "A">>, << <<"A">> >>) >>]

VcfNames == {"vcf1", "vcf2", "vcf3"}

(* ------------------------------------------------------------------ *)
(* Inputs: BED files (as parse_bed delivers them) and model files        *)
(* ------------------------------------------------------------------ *)
\* a dict of parse_bed is a function of the contig name; a contig without a
\* key has the empty list, a contig with one has -1 followed by its bounds
BedPool ==
    [none |-> [chr1 |-> <<>>, chr2 |-> <<>>],
     bed1 |-> [chr1 |-> <<0 - 1, 100, 400>>, chr2 |-> <<>>],
     bed2 |-> [chr1 |-> <<0 - 1, 13000, 13050>>, chr2 |-> <<0 - 1, 2, 9>>],
     bed3 |-> [chr1 |-> <<0 - 1>> \o [i \in 1..198 |-> 125 * i], chr2 |-> <<>>],
     bed4 |-> [chr1 |-> <<0 - 1, 20000, 20400>>, chr2 |-> <<0 - 1, 100, 400>>],
     bed5 |-> [chr1 |-> <<>>, chr2 |-> <<0 - 1, 100, 400>>]]

BedNames == {"bed1", "bed2"}

\* pickled (values, probabilities) of --pe-model
FraglenModelPool == [fl1 |-> [values |-> <<80, 120, 160>>, prob |-> <<1, 2, 1>>]]

\* gc-bias models: the multiplier (hundredths) of the uniform-GC references
GcModelPool == [none |-> 100, gc1 |-> 50]

(* ------------------------------------------------------------------ *)
(* Command lines                                                        *)
(* ------------------------------------------------------------------ *)
BaseArgs ==
    [r |-> "refA", R |-> 100, c |-> 2, E |-> 0 - 100, p |-> 2, tr |-> "none",
     dr |-> "none", to |-> 0, M |-> 0 - 100, N |-> 0 - 1, v |-> "none",
     pe |-> <<None, None>>, pe_model |-> "none", gc_model |-> "none",
     bam |-> TRUE, vcf |-> TRUE, fa |-> FALSE, rng |-> 1, no_fastq |-> FALSE,
     discard_offtarget |-> FALSE, force_coverage |-> FALSE]

\* one option off its default, in and out of its documented range
ValidationArgs ==
    {[BaseArgs EXCEPT !.R = x] : x \in {9, 10, 1000000, 1000001}}
    \cup {[BaseArgs EXCEPT !.c = x, !.no_fastq = TRUE, !.bam = FALSE] :
              x \in {0 - 1, 100000000, 100000001}}
    \cup {[BaseArgs EXCEPT !.p = x] : x \in {0, 1, 100, 101}}
    \cup {[BaseArgs EXCEPT !.to = x] : x \in {0 - 1, 100, 101}}
    \cup {[BaseArgs EXCEPT !.E = x] : x \in {0 - 50, 0 - 1, 0, 30, 31}}
    \cup {[BaseArgs EXCEPT !.M = x] : x \in {0 - 50, 0 - 1, 0, 30, 31}}
    \cup {[BaseArgs EXCEPT !.N = x] : x \in {0 - 2, 0, 1, 40, 41}}
    \cup {[BaseArgs EXCEPT !.r = "missing"], [BaseArgs EXCEPT !.v = "missing"],
          [BaseArgs EXCEPT !.tr = "missing"]}
    \cup {[BaseArgs EXCEPT !.pe = x] : x \in {<<120, None>>, <<None, 10>>}}
    \cup {[BaseArgs EXCEPT !.gc_model = "unreadable"],
          [BaseArgs EXCEPT !.pe_model = "unreadable"]}
    \cup {[BaseArgs EXCEPT !.no_fastq = a, !.fa = b, !.bam = x, !.vcf = y] :
              a \in BOOLEAN, b \in BOOLEAN, x \in BOOLEAN, y \in BOOLEAN}

VcfArgs == {[BaseArgs EXCEPT !.v = x, !.c = 0] : x \in VcfNames}

RunArgs ==
    {[BaseArgs EXCEPT !.r = ref, !.pe = pe, !.rng = s, !.c = c] :
        ref \in RefNames, pe \in {<<None, None>>, <<120, 10>>},
        s \in {0 - 1} \cup 1..MaxSeed, c \in {0, 2}}
    \cup {[BaseArgs EXCEPT !.pe = <<120, 0>>], [BaseArgs EXCEPT !.pe_model = "fl1"],
          [BaseArgs EXCEPT !.pe_model = "fl1", !.fa = TRUE],
          [BaseArgs EXCEPT !.gc_model = "gc1"],
          [BaseArgs EXCEPT !.force_coverage = TRUE, !.gc_model = "gc1"]}
    \cup {[BaseArgs EXCEPT !.tr = bed, !.discard_offtarget = d, !.to = t, !.r = ref] :
              bed \in BedNames, d \in BOOLEAN, t \in {0, 50}, ref \in RefNames}
    \cup {[BaseArgs EXCEPT !.tr = "bed3", !.discard_offtarget = TRUE, !.rng = s] :
              s \in 1..MaxSeed}
    \cup {[BaseArgs EXCEPT !.dr = "bed1"], [BaseArgs EXCEPT !.discard_offtarget = TRUE]}
    \cup {[BaseArgs EXCEPT !.r = "refC", !.tr = bed] : bed \in {"none", "bed1"}}
    \cup {[BaseArgs EXCEPT !.r = "refC", !.tr = "bed4", !.discard_offtarget = d] :
              d \in BOOLEAN}
    \cup {[BaseArgs EXCEPT !.r = "refC", !.tr = "bed5", !.discard_offtarget = TRUE]}

ArgPool == ValidationArgs \cup VcfArgs \cup RunArgs


(* ------------------------------------------------------------------ *)
(* State                                                                *)
(* ------------------------------------------------------------------ *)
VARIABLES
    pc, exit_code, exit_msg, args,
    no_fastq, only_vcf, paired_end, rng_seed, rng, se_rate, mut_rate,
    fragment_size, fraglen_distribution, gc_scale_val,
    input_variants, printed_warning, n_skipped, vchrom,
    target_regions, discard_regions,
    output_file_writer, calls,
    read_name_count, unmapped_records,
    chrom_i, n_regions, valid_variants_from_vcf, all_variants_out, sequences,
    target_size, overlap, overlap_min_window_size,
    span_i, initial_position, final_position, base_pair_distance,
    start, end, vars_from_prev_overlap, v_index_from_prev, is_last_time,
    next_start, next_end, vars_in_window, insert_arg, all_inserted_variants,
    cov_sum, target_hits, coverage_avg, reads_to_sample, k,
    run, first_calls

cfgVars == <<args, no_fastq, only_vcf, paired_end, rng_seed, se_rate, mut_rate,
             fragment_size, fraglen_distribution, gc_scale_val>>
vcfVars == <<input_variants, printed_warning, n_skipped, vchrom>>
bedVars == <<target_regions, discard_regions>>
readVars == <<read_name_count, unmapped_records>>
chromVars == <<chrom_i, n_regions, valid_variants_from_vcf,
               target_size, overlap, overlap_min_window_size>>
spanVars == <<span_i, initial_position, final_position, base_pair_distance>>
winVars == <<start, end, vars_from_prev_overlap, v_index_from_prev, is_last_time,
             next_start, next_end, vars_in_window, cov_sum, target_hits>>
sampleVars == <<insert_arg, all_inserted_variants, coverage_avg, reads_to_sample, k>>
harnessVars == <<run, first_calls>>

vars == <<pc, exit_code, exit_msg, rng, output_file_writer, calls, all_variants_out, sequences,
          cfgVars, vcfVars, bedVars, readVars, chromVars, spanVars, winVars,
          sampleVars, harnessVars>>

\* the reference of the run, once check_file_open has accepted it
ref_index == RefPool[args.r]
reference_chromosomes == [i \in 1..Len(ref_index) |-> ref_index[i].name]
ContigOf(name) == ref_index[CHOOSE i \in 1..Len(ref_index) : ref_index[i].name = name]

\* the state main starts from, for command line a
Start(a) ==
    /\ pc = "check_inputs" /\ exit_code = None /\ exit_msg = "" /\ args = a
    /\ no_fastq = a.no_fastq /\ only_vcf = FALSE /\ paired_end = FALSE
    /\ rng_seed = a.rng /\ rng = 0 /\ se_rate = a.E /\ mut_rate = a.M
    /\ fragment_size = a.pe[1] /\ fraglen_distribution = <<>> /\ gc_scale_val = 0
    /\ input_variants = <<>> /\ printed_warning = FALSE /\ n_skipped = <<>> /\ vchrom = 1
    /\ target_regions = <<>> /\ discard_regions = <<>>
    /\ output_file_writer = FALSE /\ calls = <<>>
    /\ read_name_count = 1 /\ unmapped_records = <<>>
    /\ chrom_i = 0 /\ n_regions = <<>> /\ valid_variants_from_vcf = <<>>
    /\ all_variants_out = {} /\ sequences = [made |-> FALSE, updates |-> 0, window |-> <<0, 0>>]
    /\ target_size = 0 /\ overlap = 0 /\ overlap_min_window_size = 0
    /\ span_i = 0 /\ initial_position = 0 /\ final_position = 0 /\ base_pair_distance = 0
    /\ start = 0 /\ end = 0 /\ vars_from_prev_overlap = <<>> /\ v_index_from_prev = 0
    /\ is_last_time = FALSE /\ next_start = 0 /\ next_end = 0 /\ vars_in_window = <<>>
    /\ insert_arg = <<>> /\ all_inserted_variants = <<>>
    /\ cov_sum = 0 /\ target_hits = 0 /\ coverage_avg = None /\ reads_to_sample = 0 /\ k = 0

Init == (\E a \in ArgPool : Start(a)) /\ run = 1 /\ first_calls = <<>>

(* ------------------------------------------------------------------ *)
(* INPUT ERROR CHECKING                                                 *)
(* ------------------------------------------------------------------ *)
\* check_file_open(filename, msg, required): TRUE when main goes on
check_file_open(filename, required) ==
    IF filename = "none" THEN ~required ELSE filename # "missing"

\* is_in_range(value, lo, hi, msg): TRUE when main goes on
is_in_range(value, lower_bound, upper_bound) ==
    value >= lower_bound /\ value <= upper_bound

\* no_fastq and not create_fasta and not save_bam and not save_vcf
NoFilesWritten(a) == a.no_fastq /\ ~a.fa /\ ~a.bam /\ ~a.vcf

\* --pe with one of its two values missing
PeInconsistent(a) ==
    \/ (a.pe[1] = None /\ a.pe[2] # None)
    \/ (a.pe[1] # None /\ a.pe[2] = None)

\* (mean and std given) or (model given) and not create_fasta
PairedEnd(a) ==
    \/ (a.pe[1] # None /\ a.pe[2] # None)
    \/ (a.pe_model # "none" /\ ~a.fa)

\* a bug: the seed is drawn at random whatever --rng says
SeedChoicesAlwaysRandom(rng_arg) == 1..MaxSeed

\* the seed the generator is seeded with: the given one unless --rng is -1
SeedChoices(rng_arg) == IF rng_arg = 0 - 1 THEN 1..MaxSeed ELSE {rng_arg}

\* -E is range-checked unless it is the sentinel -1
SeRateOk(E) == IF E # 0 - 100 THEN is_in_range(E, 0, 30) ELSE TRUE

\* -N is range-checked unless it is the sentinel -1
NMaxQualOk(n) == IF n # 0 - 1 THEN is_in_range(n, 1, 40) ELSE TRUE

\* the four unconditional range checks
RangesOk(a) ==
    /\ is_in_range(a.R, 10, 1000000)
    /\ is_in_range(a.c, 0, 100000000)
    /\ is_in_range(a.p, 1, 100)
    /\ is_in_range(a.to, 0, 100)

FilesOk(a) ==
    /\ check_file_open(a.r, TRUE)
    /\ check_file_open(a.v, FALSE)
    /\ check_file_open(a.tr, FALSE)

\* a bug: the error exit reports success
ExitStatusSuccess == 1 - 1
\* sys.exit(1)
ExitStatusOnError == 1

Exit(code, msg) == pc' = "exit" /\ exit_code' = code /\ exit_msg' = msg
NoExit == UNCHANGED <<exit_code, exit_msg>>

CheckInputs ==
    /\ pc = "check_inputs"
    /\ IF ~FilesOk(args) \/ NoFilesWritten(args) \/ PeInconsistent(args)
       THEN /\ Exit(ExitStatusOnError, "validation")
            /\ UNCHANGED <<no_fastq, only_vcf, paired_end, rng_seed, rng, se_rate>>
       ELSE /\ no_fastq' = (args.no_fastq \/ args.fa)
            /\ only_vcf' = (no_fastq' /\ args.vcf /\ ~args.bam /\ ~args.fa)
            /\ paired_end' = PairedEnd(args)
            /\ \E s \in SeedChoices(args.rng) :
                   rng_seed' = s /\ rng' = RandomSeed(s)
            /\ IF RangesOk(args) /\ SeRateOk(args.E) /\ NMaxQualOk(args.N)
               THEN /\ se_rate' = (IF args.E # 0 - 100 THEN args.E ELSE None)
                    /\ pc' = "load_models" /\ NoExit
               ELSE /\ Exit(ExitStatusOnError, "validation") /\ UNCHANGED se_rate
    /\ UNCHANGED <<args, mut_rate, fragment_size, fraglen_distribution, gc_scale_val,
                   output_file_writer, calls, all_variants_out, sequences,
                   vcfVars, bedVars, readVars, chromVars, spanVars, winVars,
                   sampleVars, harnessVars>>

(* ------------------------------------------------------------------ *)
(* LOAD INPUT MODELS                                                    *)
(* ------------------------------------------------------------------ *)
\* if mut_rate < 0.: mut_rate = None
MutRateAfterSentinel(M) == IF M < 0 THEN None ELSE M

\* -M is range-checked unless it is -1 or None
MutRateOk(m) == IF m # 0 - 100 /\ m # None THEN is_in_range(m, 0, 30) ELSE TRUE

\* pickle.load(open(model)) of the GC-bias or fragment-length model succeeds
ModelReadable(f) == f # "unreadable"

\* mean_ind_of_weighted_list: the index whose cumulative weight is nearest
\* to half of the total
mean_ind_of_weighted_list(w) ==
    LET tot == SeqSum(w)
        cum(i) == SeqSum(SubSeq(w, 1, i))
        dist(i) == Abs(2 * cum(i) - tot)
    IN  CHOOSE i \in 1..Len(w) :
            \A j \in 1..Len(w) : dist(i) < dist(j) \/ (dist(i) = dist(j) /\ i <= j)

\* the fragment lengths longer than the read, of the empirical model
FraglenFromModel(m, read_len) ==
    LET keep == {i \in 1..Len(m.values) : m.values[i] > read_len}
        idx == SelectSeq([i \in 1..Len(m.values) |-> i], LAMBDA i : i \in keep)
    IN  [values |-> [j \in 1..Len(idx) |-> m.values[idx[j]]],
         prob |-> [j \in 1..Len(idx) |-> m.prob[idx[j]]]]

\* the fragment lengths longer than the read within mean +- 6 std
FraglenFromMeanStd(mean, std, read_len) ==
    LET lo == Max2(mean - 6 * std, read_len + 1)
        hi == mean + 6 * std
    IN  IF std = 0 THEN <<mean>> ELSE [j \in 1..(hi - lo + 1) |-> lo + j - 1]

LoadModels ==
    /\ pc = "load_models"
    /\ mut_rate' = MutRateAfterSentinel(mut_rate)
    /\ IF ~MutRateOk(mut_rate') \/ ~ModelReadable(args.gc_model)
          \/ (paired_end /\ ~ModelReadable(args.pe_model))
       THEN /\ Exit(ExitStatusOnError, IF MutRateOk(mut_rate') THEN "model" ELSE "validation")
            /\ UNCHANGED <<gc_scale_val, fraglen_distribution, fragment_size>>
       ELSE /\ gc_scale_val' = GcModelPool[args.gc_model]
            /\ IF paired_end /\ args.pe_model # "none"
               THEN LET fl == FraglenFromModel(FraglenModelPool[args.pe_model], args.R)
                    IN  /\ fraglen_distribution' = fl.values
                        /\ fragment_size' = fl.values[mean_ind_of_weighted_list(fl.prob)]
               ELSE IF paired_end
               THEN /\ fraglen_distribution' =
                           FraglenFromMeanStd(args.pe[1], args.pe[2], args.R)
                    /\ UNCHANGED fragment_size
               ELSE UNCHANGED <<fraglen_distribution, fragment_size>>
            /\ pc' = "ingest_vcf" /\ NoExit
    /\ UNCHANGED <<args, no_fastq, only_vcf, paired_end, rng_seed, rng, se_rate,
                   output_file_writer, calls, all_variants_out, sequences,
                   vcfVars, bedVars, readVars, chromVars, spanVars, winVars,
                   sampleVars, harnessVars>>

(* ------------------------------------------------------------------ *)
(* Process Inputs: the input VCF                                        *)
(* ------------------------------------------------------------------ *)
\* list(set(list(input_variants.CHROM)))
InputVariantsChroms(iv) == {iv[i].CHROM : i \in 1..Len(iv)}

\* "Remove any chromosomes that aren't in the reference": the frames the loop
\* over the set of CHROMs can leave (the set is walked in no fixed order, and
\* printed_warning closes the branch after its first hit)
RemoveAbsentChroms(iv, ref_chroms) ==
    LET absent == {c \in InputVariantsChroms(iv) : c \notin Range(ref_chroms)}
    IN  IF absent = {} THEN {iv}
        ELSE {SelectSeq(iv, LAMBDA row : row.CHROM # item) : item \in absent}

\* any((nn not in ALLOWED_NUCL) for nn in the characters of the alt alleles)
AnyBadNucl(row) == \E nn \in Range(Flatten(row.alt_split)) : nn \notin ALLOWED_NUCL

\* str(ref_index[chrom].seq[span[0] - 1:span[1] - 1])
RSeq(row, ctg) == RefSlice(ctg, row.POS - 1, row.POS + Len(row.REF) - 1)

\* a bug: the alt alleles are not checked
SkipBucketNoAltCheck(row, ctg) ==
    IF RSeq(row, ctg) # row.REF THEN 1
    ELSE IF "N" \in Range(RSeq(row, ctg)) THEN 2
    ELSE 0

\* the branch of the if/elif chain a row takes: 0 keeps the row, 1..3 is the
\* bucket of n_skipped it is counted in
SkipBucket(row, ctg) ==
    IF RSeq(row, ctg) # row.REF THEN 1
    ELSE IF "N" \in Range(RSeq(row, ctg)) THEN 2
    ELSE IF AnyBadNucl(row) THEN 3
    ELSE 0

\* the iterrows loop over the rows of one chromosome
RECURSIVE ValidateRows(_, _, _, _)
ValidateRows(rows, ctg, iv, skipped) ==
    IF rows = <<>> THEN [iv |-> iv, n_skipped |-> skipped]
    ELSE LET row == Head(rows)
             b == SkipBucket(row, ctg)
         IN  IF b = 0 THEN ValidateRows(Tail(rows), ctg, iv, skipped)
             ELSE ValidateRows(Tail(rows), ctg,
                               SelectSeq(iv, LAMBDA x : x.index # row.index),
                               [skipped EXCEPT ![b] = @ + 1])

IngestVcf ==
    /\ pc = "ingest_vcf"
    /\ IF args.v = "none"
       THEN /\ pc' = "init_output"
            /\ UNCHANGED <<input_variants, printed_warning>>
       ELSE /\ \E iv \in RemoveAbsentChroms(VcfPool[args.v], reference_chromosomes) :
                   /\ input_variants' = iv
                   /\ printed_warning' = (iv # VcfPool[args.v])
            /\ pc' = "validate_vcf"
    /\ vchrom' = 1
    /\ UNCHANGED <<exit_code, exit_msg, rng, output_file_writer, calls, all_variants_out, sequences,
                   n_skipped, cfgVars, bedVars, readVars, chromVars, spanVars, winVars,
                   sampleVars, harnessVars>>

ValidateVcf ==
    /\ pc = "validate_vcf"
    /\ vchrom <= Len(reference_chromosomes)
    /\ LET chrom == reference_chromosomes[vchrom]
           rows == SelectSeq(input_variants, LAMBDA row : row.CHROM = chrom)
           res == ValidateRows(rows, ref_index[vchrom], input_variants, <<0, 0, 0>>)
       IN  /\ input_variants' = res.iv
           /\ n_skipped' = Append(n_skipped, res.n_skipped)
    /\ vchrom' = vchrom + 1
    /\ pc' = IF vchrom = Len(reference_chromosomes) THEN "init_output" ELSE "validate_vcf"
    /\ UNCHANGED <<exit_code, exit_msg, rng, output_file_writer, calls, all_variants_out, sequences,
                   printed_warning, cfgVars, bedVars, readVars, chromVars, spanVars,
                   winVars, sampleVars, harnessVars>>

(* ------------------------------------------------------------------ *)
(* Process Inputs: BED files, output files                              *)
(* ------------------------------------------------------------------ *)
\* parse_bed(bed, reference_chromosomes, ...)
parse_bed(bed) == BedPool[bed]

\* "not regions": the dict has no key
NoRegions(regions) == \A c \in DOMAIN regions : regions[c] = <<>>

InitOutput ==
    /\ pc = "init_output"
    /\ target_regions' = parse_bed(args.tr)
    /\ discard_regions' = parse_bed(args.dr)
    /\ output_file_writer' = TRUE
    /\ read_name_count' = 1
    /\ unmapped_records' = <<>>
    /\ chrom_i' = 0
    /\ pc' = "chrom_loop"
    /\ UNCHANGED <<exit_code, exit_msg, rng, calls, all_variants_out, sequences,
                   n_regions, valid_variants_from_vcf, target_size, overlap,
                   overlap_min_window_size,
                   cfgVars, vcfVars, spanVars, winVars, sampleVars, harnessVars>>

(* ------------------------------------------------------------------ *)
(* The contig loop                                                      *)
(* ------------------------------------------------------------------ *)
read_len == args.R
ploids == args.p
coverage == args.c
off_target_scalar == args.to
\* a bug: the flag is ignored
OffTargetDiscardNever == FALSE
off_target_discard == args.discard_offtarget
force_coverage == args.force_coverage
save_bam == args.bam
save_vcf == args.vcf
chrom == reference_chromosomes[chrom_i]
ref_sequence == ref_index[chrom_i]

\* n_handling[1]
NHandlingLen == IF paired_end THEN fragment_size ELSE read_len

\* window_target_scale * (fragment_size or read_len)
TargetSize == IF paired_end THEN window_target_scale * fragment_size
              ELSE window_target_scale * read_len

\* fragment_size (mean) if paired-end, read_len if single-end
Overlap == IF paired_end THEN fragment_size ELSE read_len

\* a bug: the single-end size is used in paired-end mode too
OverlapMinWindowSizeSingleEnd == read_len + 10

\* max(fraglen_distribution.values) + 10, or read_len + 10
OverlapMinWindowSize == IF paired_end THEN SeqMax(fraglen_distribution) + 10
                        ELSE read_len + 10

StartChrom ==
    /\ pc = "chrom_loop"
    /\ chrom_i < Len(ref_index)
    /\ chrom_i' = chrom_i + 1
    /\ n_regions' = FindNonN(ref_index[chrom_i + 1], NHandlingLen)
    /\ valid_variants_from_vcf' = <<>>
    /\ all_variants_out' = {}
    /\ sequences' = [made |-> FALSE, updates |-> 0, window |-> <<0, 0>>]
    /\ target_size' = TargetSize
    /\ overlap' = Overlap
    /\ overlap_min_window_size' = OverlapMinWindowSize
    /\ span_i' = 0
    /\ pc' = "span_loop"
    /\ UNCHANGED <<exit_code, exit_msg, rng, output_file_writer, calls,
                   initial_position, final_position, base_pair_distance,
                   cfgVars, vcfVars, bedVars, readVars, winVars, sampleVars, harnessVars>>

(* ------------------------------------------------------------------ *)
(* The span loop                                                        *)
(* ------------------------------------------------------------------ *)
\* max([1, (final_position - initial_position) // target_size])
NumberTargetWindows(ip, fp, ts) == Max2(1, (fp - ip) \div ts)

\* a bug: the window target is divided by its scale, leaving one overlap
BasePairDistanceOneOverlap(ip, fp, ts) == ts \div window_target_scale

\* int((final_position - initial_position) / float(number_target_windows))
BasePairDistance(ip, fp, ts) == (fp - ip) \div NumberTargetWindows(ip, fp, ts)

\* "if for some reason our region is too small to process, skip it!"
SpanTooSmall(ip, fp, ts, omws) ==
    NumberTargetWindows(ip, fp, ts) = 1 /\ (fp - ip) < omws

StartSpan ==
    /\ pc = "span_loop"
    /\ span_i < Len(n_regions)
    /\ span_i' = span_i + 1
    /\ LET ip == n_regions[span_i + 1][1]
           fp == n_regions[span_i + 1][2]
           bpd == BasePairDistance(ip, fp, target_size)
       IN  /\ initial_position' = ip
           /\ final_position' = fp
           /\ base_pair_distance' = bpd
           /\ IF SpanTooSmall(ip, fp, target_size, overlap_min_window_size)
              THEN /\ pc' = "span_loop"
                   /\ UNCHANGED <<start, end, vars_from_prev_overlap, v_index_from_prev,
                                  is_last_time>>
              ELSE /\ start' = ip
                   /\ end' = Min2(ip + bpd, fp)
                   /\ vars_from_prev_overlap' = <<>>
                   /\ v_index_from_prev' = 0
                   /\ is_last_time' = FALSE
                   /\ pc' = "window"
    /\ UNCHANGED <<exit_code, exit_msg, rng, output_file_writer, calls, all_variants_out,
                   sequences, next_start, next_end, vars_in_window, cov_sum, target_hits,
                   cfgVars, vcfVars, bedVars, readVars, chromVars, sampleVars,
                   harnessVars>>

(* ------------------------------------------------------------------ *)
(* The window loop: opening a window                                    *)
(* ------------------------------------------------------------------ *)
\* "which inserted variants are in this window?": the for loop from index j
RECURSIVE CollectVars(_, _, _, _, _, _, _, _)
CollectVars(j, vv, s, e, ov, acc, updated, vidx) ==
    IF j >= Len(vv) THEN [vars_in_window |-> acc, v_index_from_prev |-> vidx]
    ELSE LET v == vv[j + 1]
             variants_position == v[1]
             acc2 == IF s < variants_position /\ variants_position < e
                     THEN Append(acc, <<variants_position - 1>> \o Tail(v))
                     ELSE acc
             upd == variants_position >= e - ov - 1 /\ ~updated
         IN  IF variants_position >= e
             THEN [vars_in_window |-> acc2,
                   v_index_from_prev |-> IF upd THEN j ELSE vidx]
             ELSE CollectVars(j + 1, vv, s, e, ov, acc2, updated \/ upd,
                              IF upd THEN j ELSE vidx)

\* max([max([abs(len(row[1]) - len(alt_allele)), 1]) for alt_allele in row[2]])
BufferNeeded(row) ==
    SeqMax([a \in 1..Len(row[3]) |-> Max2(Abs(Len(row[2]) - Len(row[3][a])), 1)])

\* structural_vars.append((row[0] - 1, buffer_needed))
StructuralVars(viw) == [n \in 1..Len(viw) |-> <<viw[n][1] - 1, BufferNeeded(viw[n])>>]

\* a bug: the end of the window is never moved
ExtendEndNoExtension(e, svs, ov) == e

\* "adjust end-position of window based on inserted structural mutations"
RECURSIVE ExtendEnd(_, _, _)
ExtendEnd(e, svs, ov) ==
    LET delta(row) == (e - 1) - (row[1] + row[2]) - 2 - ov
        hit == {n \in 1..Len(svs) : delta(svs[n]) < 0}
    IN  IF hit = {} THEN e
        ELSE LET first == CHOOSE n \in hit : \A m \in hit : n <= m
             IN  ExtendEnd(e - delta(svs[first]), svs, ov)

\* a bug: the next window starts where this one ends
NextStartNoOverlap(e, ov) == e

\* next_start = end - overlap
NextStart(e, ov) == e - ov

\* a bug: the next window is not cut at the end of the span
NextEndPastSpan(ns, bpd, fp) == ns + bpd

\* next_end = min([next_start + base_pair_distance, final_position])
NextEnd(ns, bpd, fp) == Min2(ns + bpd, fp)

\* bisect.bisect(a, x): how many bounds of the sorted list are <= x
Bisect(a, x) == Cardinality({n \in 1..Len(a) : a[n] <= x})

\* the positions j of [s, e) with bisect.bisect(a, j) = b, for a sorted list
\* a: those from a[b] up to a[b + 1]
PositionsWithBisect(a, b, s, e) ==
    LET lo == IF b = 0 THEN s ELSE Max2(s, a[b])
        hi == IF b = Len(a) THEN e ELSE Min2(e, a[b + 1])
    IN  lo..(hi - 1)

\* target_hits of the window: the positions whose bisect is even
TargetHits(regions, s, e) ==
    IF regions = <<>> THEN 0
    ELSE Cardinality(UNION {PositionsWithBisect(regions, b, s, e) :
                               b \in {c \in 0..Len(regions) : c % 2 = 0}})

\* sum(coverage_dat[2]), in hundredths
CoverageSum(all_regions, regions, hits, s, e, scalar) ==
    IF NoRegions(all_regions) THEN 100 * (e - s)
    ELSE IF regions = <<>> THEN scalar * (e - s)
    ELSE 100 * hits + scalar * ((e - s) - hits)

\* a bug: the target-hits test is left out
SkipThisWindowNoTargetTest(discard, hits, rl, csum, s, e, omws) ==
    \/ csum < 100 * low_cov_thresh
    \/ (e - s) < omws

\* skip_this_window after the three tests
SkipThisWindow(discard, hits, rl, csum, s, e, omws) ==
    \/ (discard /\ hits <= rl)
    \/ csum < 100 * low_cov_thresh
    \/ (e - s) < omws

OpenWindow ==
    /\ pc = "window"
    /\ LET cv == CollectVars(v_index_from_prev, valid_variants_from_vcf, start, end,
                             overlap, <<>>, FALSE, v_index_from_prev)
           ext == ExtendEnd(end, StructuralVars(cv.vars_in_window), overlap)
           ns == NextStart(ext, overlap)
           ne == NextEnd(ns, base_pair_distance, final_position)
           last == ne - ns < base_pair_distance
           e2 == IF last THEN ne ELSE ext
           regions == target_regions[chrom]
           hits == IF NoRegions(target_regions) THEN 0 ELSE TargetHits(regions, start, e2)
           csum == CoverageSum(target_regions, regions, hits, start, e2, off_target_scalar)
       IN  /\ vars_in_window' = cv.vars_in_window
           /\ v_index_from_prev' = cv.v_index_from_prev
           /\ end' = e2
           /\ next_start' = ns
           /\ next_end' = ne
           /\ is_last_time' = (is_last_time \/ last)
           /\ target_hits' = hits
           /\ cov_sum' = csum
           /\ pc' = IF SkipThisWindow(off_target_discard, hits, read_len, csum, start, e2,
                                      overlap_min_window_size)
                    THEN "skip" ELSE "build"
    /\ UNCHANGED <<exit_code, exit_msg, rng, output_file_writer, calls, all_variants_out,
                   sequences, start, vars_from_prev_overlap,
                   cfgVars, vcfVars, bedVars, readVars, chromVars, spanVars, sampleVars,
                   harnessVars>>

\* "skip window, save cpu time"
SkipWindow ==
    /\ pc = "skip"
    /\ start' = next_start
    /\ end' = next_end
    /\ IF is_last_time
       THEN /\ pc' = "span_loop"
            /\ UNCHANGED <<is_last_time, vars_from_prev_overlap>>
       ELSE /\ is_last_time' = (next_end >= final_position)
            /\ vars_from_prev_overlap' = <<>>
            /\ pc' = "window"
    /\ UNCHANGED <<exit_code, exit_msg, rng, output_file_writer, calls, all_variants_out,
                   sequences, v_index_from_prev, next_start, next_end, vars_in_window,
                   cov_sum, target_hits,
                   cfgVars, vcfVars, bedVars, readVars, chromVars, spanVars, sampleVars,
                   harnessVars>>

(* ------------------------------------------------------------------ *)
(* The window loop: the sequence container                              *)
(* ------------------------------------------------------------------ *)
\* sequences.all_cigar after the constructor or update: per ploid, the lengths
\* of the CIGARs of the window, each of read_len operations
AllCigar(pl, rl) == [q \in 1..pl |-> <<rl, rl>>]

\* the check after the constructor or update:
\*   [c for c in all_cigar[0] if len(c) != 100] or [c for c in all_cigar[1] if len(c) != 100]
\* "ok", "cigar" (sys.exit(1)) or "IndexError" (all_cigar[1] does not exist)
CigarCheck(all_cigar) ==
    IF \E n \in 1..Len(all_cigar[1]) : all_cigar[1][n] # 100 THEN "cigar"
    ELSE IF Len(all_cigar) < 2 THEN "IndexError"
    ELSE IF \E n \in 1..Len(all_cigar[2]) : all_cigar[2][n] # 100 THEN "cigar"
    ELSE "ok"

\* a bug: every window constructs a new container
NotSequencesAlways(seq) == TRUE

\* "if not sequences": no container has been made for this contig
NotSequences(seq) == ~seq.made

BuildContainer ==
    /\ pc = "build"
    /\ sequences' = IF NotSequences(sequences)
                    THEN [made |-> TRUE, updates |-> 0, window |-> <<start, end>>]
                    ELSE [sequences EXCEPT !.updates = @ + 1, !.window = <<start, end>>]
    /\ LET chk == CigarCheck(AllCigar(ploids, read_len))
       IN  IF chk = "ok" THEN pc' = "insert" /\ NoExit
           ELSE Exit(ExitStatusOnError, chk)
    /\ UNCHANGED <<rng, output_file_writer, calls, all_variants_out,
                   cfgVars, vcfVars, bedVars, readVars, chromVars, spanVars, winVars,
                   sampleVars, harnessVars>>

\* sequences.insert_mutations(vars): the variants of the list the window takes
InsertMutations(vs, s, e) == SelectSeq(vs, LAMBDA v : s <= v[1] /\ v[1] < e)

\* sequences.random_mutations(): every variant inserted in the window, the
\* given ones and at most one random SNP; one draw of the generator
RandomMutations(x, inserted, s, e, ov, ctg) ==
    LET d == RngVal(x)
        cand == << s + ov, e - ov - 1, e - ov + 5 >>
        pos == cand[(d % 3) + 1]
        ref == RefBase(ctg, pos)
        alt == IF ref = "A" THEN "C" ELSE "A"
        snp == << pos, <<ref>>, << <<alt>> >>, (d \div 3) % 2, (d \div 6) % 2 >>
        taken == \E n \in 1..Len(inserted) : inserted[n][1] = pos
    IN  [rng |-> RngNext(x),
         all |-> IF d % 5 = 0 \/ ref = "N" \/ taken THEN inserted
                 ELSE Append(inserted, snp)]

\* sequences.init_coverage(coverage_dat): the window-average coverage
\* multiplier, in hundredths
InitCoverage(csum, gc, s, e) == (gc * csum) \div (100 * (e - s))

\* a bug: the margin of one base is forgotten
KeepForNextWindowNoMargin(all, e, ov) == SelectSeq(all, LAMBDA row : row[1] >= e - ov)

\* "which variants do we need to keep for next time (because of window overlap)?"
KeepForNextWindow(all, e, ov) == SelectSeq(all, LAMBDA row : row[1] >= e - ov - 1)

\* a bug: the paired-end budget is not halved
ReadsToSampleSingleEndDivisor(window_span, cov, cavg, rl, paired, force, csum) ==
    LET n == IF force THEN (window_span * cov) \div (100 * rl) + 1
             ELSE (window_span * cov * cavg) \div (10000 * rl) + 1
    IN  IF n = 1 /\ csum < 100 * low_cov_thresh THEN 0 ELSE n

\* a bug: the buffer of one read per window is left out
ReadsToSampleNoBuffer(window_span, cov, cavg, rl, paired, force, csum) ==
    IF paired
    THEN IF force THEN (window_span * cov) \div (100 * 2 * rl)
         ELSE (window_span * cov * cavg) \div (10000 * 2 * rl)
    ELSE IF force THEN (window_span * cov) \div (100 * rl)
         ELSE (window_span * cov * cavg) \div (10000 * rl)

\* reads_to_sample of the window (coverage and coverage_avg in hundredths)
ReadsToSample(window_span, cov, cavg, rl, paired, force, csum) ==
    LET n == IF paired
             THEN IF force THEN (window_span * cov) \div (100 * 2 * rl) + 1
                  ELSE (window_span * cov * cavg) \div (10000 * 2 * rl) + 1
             ELSE IF force THEN (window_span * cov) \div (100 * rl) + 1
                  ELSE (window_span * cov * cavg) \div (10000 * rl) + 1
    IN  IF n = 1 /\ csum < 100 * low_cov_thresh THEN 0 ELSE n

InsertAndBudget ==
    /\ pc = "insert"
    /\ LET arg == vars_from_prev_overlap \o vars_in_window
           rm == RandomMutations(rng, InsertMutations(arg, start, end), start, end,
                                 overlap, ref_sequence)
           cavg == IF cov_sum >= 100 * low_cov_thresh
                   THEN InitCoverage(cov_sum, gc_scale_val, start, end)
                   ELSE coverage_avg
       IN  /\ insert_arg' = arg
           /\ all_inserted_variants' = rm.all
           /\ rng' = rm.rng
           /\ coverage_avg' = cavg
           /\ vars_from_prev_overlap' = KeepForNextWindow(rm.all, end, overlap)
           /\ IF only_vcf
              THEN pc' = "close" /\ UNCHANGED <<reads_to_sample, k>>
              ELSE /\ reads_to_sample' = ReadsToSample(end - start, coverage, cavg, read_len,
                                                      paired_end, force_coverage, cov_sum)
                   /\ k' = 0
                   /\ pc' = "reads"
    /\ UNCHANGED <<exit_code, exit_msg, output_file_writer, calls, all_variants_out,
                   sequences, start, end, v_index_from_prev, is_last_time, next_start,
                   next_end, vars_in_window, cov_sum, target_hits,
                   cfgVars, vcfVars, bedVars, readVars, chromVars, spanVars, harnessVars>>

(* ------------------------------------------------------------------ *)
(* The window loop: sampling reads                                      *)
(* ------------------------------------------------------------------ *)
\* a call of the output file writer
Call(op, ctg, name, pos, data, flag, mate, mapq, var) ==
    [op |-> op, ctg |-> ctg, name |-> name, pos |-> pos, data |-> data,
     flag |-> flag, mate |-> mate, mapq |-> mapq, var |-> var]

\* sam_flag(list of flag names)
sam_flag(names) == names

\* fraglen_distribution.sample(): one draw
FraglenSample(x, values) ==
    [rng |-> RngNext(x), val |-> values[(RngVal(x) % Len(values)) + 1]]

\* sequences.sample_read(se_class[, fraglen]): two draws; <<>> is None, a mate
\* is <<ref_pos or None, what stands for its cigar, bases and qualities>>
SampleReadResult(x, wlen, rl, paired, fraglen) ==
    LET d1 == RngVal(x)
        x1 == RngNext(x)
        d2 == RngVal(x1)
        kind == d1 % 8
        p1 == (d2 * 37) % (wlen - (IF paired THEN fraglen ELSE rl))
        p2 == p1 + fraglen - rl
        data == IF kind = 0 THEN <<>>
                ELSE IF ~paired
                THEN IF kind = 1 THEN << <<None, d2>> >> ELSE << <<p1, d2>> >>
                ELSE IF kind = 1 THEN << <<None, d2>>, <<None, d2 + 1>> >>
                ELSE IF kind = 2 THEN << <<p1, d2>>, <<None, d2 + 1>> >>
                ELSE IF kind = 3 THEN << <<None, d2>>, <<p2, d2 + 1>> >>
                ELSE << <<p1, d2>>, <<p2, d2 + 1>> >>
    IN  [rng |-> RngNext(x1), data |-> data]

\* is_unmapped: the mates without a reference position
IsUnmapped(data) == [m \in 1..Len(data) |-> data[m][1] = None]

\* a bug: the positions are left relative to the window
ShiftByStartForgotten(data, s) == data

\* a bug: only the first mate is shifted by the window start
ShiftByStartFirstMateOnly(data, s) ==
    [m \in 1..Len(data) |->
        IF data[m][1] = None \/ m > 1 THEN data[m] ELSE <<data[m][1] + s, data[m][2]>>]

\* my_read_data with the mapped positions shifted by the window start
ShiftByStart(data, s) ==
    [m \in 1..Len(data) |-> IF data[m][1] = None THEN data[m] ELSE <<data[m][1] + s, data[m][2]>>]

\* any(outside_boundaries) for one BED: a mate starts or ends at an odd bisect
OutsideBoundaries(regions, data, rl) ==
    \E m \in 1..Len(data) :
        \/ Bisect(regions, data[m][1]) % 2 = 1
        \/ Bisect(regions, data[m][1] + rl) % 2 = 1

\* the error the discard tests raise, "" when they raise none
DiscardTestError(target_on, discard_on, tregions, dregions, data) ==
    LET has_none == \E m \in 1..Len(data) : data[m][1] = None
        err(regions) == IF regions = <<>> THEN "KeyError"
                        ELSE IF has_none THEN "TypeError" ELSE ""
    IN  IF target_on /\ err(tregions) # "" THEN err(tregions)
        ELSE IF discard_on THEN err(dregions)
        ELSE ""

\* all(is_unmapped)
AllUnmapped(is_unmapped) == \A m \in 1..Len(is_unmapped) : is_unmapped[m]

\* the records appended to unmapped_records for a read whose mates are all unmapped
UnmappedToQueue(name, data, paired, is_forward) ==
    IF paired
    THEN << <<Append(name, 1), data[1],
              sam_flag({"paired", "unmapped", "mate_unmapped",
                        IF is_forward THEN "first" ELSE "second", "mate_reverse"})>>,
            <<Append(name, 2), data[2],
              sam_flag({"paired", "unmapped", "mate_unmapped",
                        IF is_forward THEN "second" ELSE "first", "reverse"})>> >>
    ELSE << <<Append(name, 1), data[1], sam_flag({"unmapped"})>> >>

\* the write_fastq_record call of a read or pair
FastqCalls(nofq, ci, name, data, is_forward) ==
    IF nofq THEN <<>>
    ELSE IF Len(data) = 1
    THEN << Call("fastq", ci, name, None, <<data[1][2], IF is_forward THEN 0 ELSE 1>>,
                 {}, None, None, <<>>) >>
    ELSE << Call("fastq", ci, name, None,
                 <<data[1][2], data[2][2], IF is_forward THEN 1 ELSE 0>>,
                 {}, None, None, <<>>) >>

\* the flags of the two mates of a pair
PairFlag1(is_forward, kind) ==
    sam_flag({"paired", kind, IF is_forward THEN "first" ELSE "second", "mate_reverse"})
PairFlag2(is_forward, kind) ==
    sam_flag({"paired", kind, IF is_forward THEN "second" ELSE "first", "reverse"})

\* a bug: the single-end branch writes the read whether it is mapped or not
BamCallsNoUnmappedTest(bam, ci, name, data, is_unmapped, is_forward) ==
    IF ~bam THEN <<>>
    ELSE IF Len(data) = 1
    THEN << Call("bam", ci, name, data[1][1], <<data[1][2]>>,
                 IF is_forward THEN {} ELSE sam_flag({"reverse"}), None, None, <<>>) >>
    ELSE IF ~is_unmapped[1] /\ ~is_unmapped[2]
    THEN << Call("bam", ci, name, data[1][1], <<data[1][2]>>,
                 PairFlag1(is_forward, "proper"), data[2][1], None, <<>>),
            Call("bam", ci, name, data[2][1], <<data[2][2]>>,
                 PairFlag2(is_forward, "proper"), data[1][1], None, <<>>) >>
    ELSE IF ~is_unmapped[1] /\ is_unmapped[2]
    THEN << Call("bam", ci, name, data[1][1], <<data[1][2]>>,
                 PairFlag1(is_forward, "mate_unmapped"), data[1][1], None, <<>>),
            Call("bam", ci, name, data[1][1], <<data[2][2]>>,
                 PairFlag2(is_forward, "unmapped"), data[1][1], 0, <<>>) >>
    ELSE IF is_unmapped[1] /\ ~is_unmapped[2]
    THEN << Call("bam", ci, name, data[2][1], <<data[1][2]>>,
                 PairFlag1(is_forward, "unmapped"), data[2][1], 0, <<>>),
            Call("bam", ci, name, data[2][1], <<data[2][2]>>,
                 PairFlag2(is_forward, "mate_unmapped"), data[2][1], None, <<>>) >>
    ELSE <<>>

\* the write_bam_record calls of a read or pair inside the window loop
BamCalls(bam, ci, name, data, is_unmapped, is_forward) ==
    IF ~bam THEN <<>>
    ELSE IF Len(data) = 1
    THEN IF ~is_unmapped[1]
         THEN << Call("bam", ci, name, data[1][1], <<data[1][2]>>,
                      IF is_forward THEN {} ELSE sam_flag({"reverse"}), None, None, <<>>) >>
         ELSE <<>>
    ELSE IF ~is_unmapped[1] /\ ~is_unmapped[2]
    THEN << Call("bam", ci, name, data[1][1], <<data[1][2]>>,
                 PairFlag1(is_forward, "proper"), data[2][1], None, <<>>),
            Call("bam", ci, name, data[2][1], <<data[2][2]>>,
                 PairFlag2(is_forward, "proper"), data[1][1], None, <<>>) >>
    ELSE IF ~is_unmapped[1] /\ is_unmapped[2]
    THEN << Call("bam", ci, name, data[1][1], <<data[1][2]>>,
                 PairFlag1(is_forward, "mate_unmapped"), data[1][1], None, <<>>),
            Call("bam", ci, name, data[1][1], <<data[2][2]>>,
                 PairFlag2(is_forward, "unmapped"), data[1][1], 0, <<>>) >>
    ELSE IF is_unmapped[1] /\ ~is_unmapped[2]
    THEN << Call("bam", ci, name, data[2][1], <<data[1][2]>>,
                 PairFlag1(is_forward, "unmapped"), data[2][1], 0, <<>>),
            Call("bam", ci, name, data[2][1], <<data[2][2]>>,
                 PairFlag2(is_forward, "mate_unmapped"), data[2][1], None, <<>>) >>
    ELSE <<>>

\* a bug: a failed attempt is tried again
AttemptsAfterNoneRetried(attempts) == attempts

\* "if my_read_data is None: continue": the attempt is used up
AttemptsAfterNone(attempts) == attempts + 1

\* a bug: the counter advances by one whatever the number of mates
NextReadNameCountByOne(count, data) == count + 1

\* read_name_count += len(my_read_data)
NextReadNameCount(count, data) == count + Len(data)

SampleRead ==
    /\ pc = "reads"
    /\ k < reads_to_sample
    /\ LET fl == IF paired_end THEN FraglenSample(rng, fraglen_distribution)
                 ELSE [rng |-> rng, val |-> 0]
           sr == SampleReadResult(fl.rng, end - start, read_len, paired_end, fl.val)
           is_unmapped == IsUnmapped(sr.data)
           my_read_data == ShiftByStart(sr.data, start)
           target_on == off_target_discard /\ args.tr # "none"
           discard_on == args.dr # "none"
           err == DiscardTestError(target_on, discard_on, target_regions[chrom],
                                   discard_regions[chrom], my_read_data)
           outside == \/ (target_on /\ OutsideBoundaries(target_regions[chrom],
                                                         my_read_data, read_len))
                      \/ (discard_on /\ OutsideBoundaries(discard_regions[chrom],
                                                          my_read_data, read_len))
           is_forward == RngVal(sr.rng) % 2 = 0
           my_read_name == <<chrom_i, read_name_count>>
       IN  IF sr.data = <<>>
           THEN /\ rng' = sr.rng /\ k' = AttemptsAfterNone(k) /\ pc' = "reads" /\ NoExit
                /\ UNCHANGED <<calls, read_name_count, unmapped_records>>
           ELSE IF err # ""
           THEN /\ rng' = sr.rng /\ Exit(ExitStatusOnError, err)
                /\ UNCHANGED <<k, calls, read_name_count, unmapped_records>>
           ELSE IF outside
           THEN /\ rng' = sr.rng /\ k' = k + 1 /\ pc' = "reads" /\ NoExit
                /\ UNCHANGED <<calls, read_name_count, unmapped_records>>
           ELSE /\ rng' = RngNext(sr.rng)
                /\ read_name_count' = NextReadNameCount(read_name_count, my_read_data)
                /\ unmapped_records' =
                       IF AllUnmapped(is_unmapped)
                       THEN unmapped_records \o
                            UnmappedToQueue(my_read_name, my_read_data, paired_end, is_forward)
                       ELSE unmapped_records
                /\ calls' = calls
                            \o FastqCalls(no_fastq, chrom_i, my_read_name, my_read_data,
                                          is_forward)
                            \o BamCalls(save_bam, chrom_i, my_read_name, my_read_data,
                                        is_unmapped, is_forward)
                /\ k' = k + 1 /\ pc' = "reads" /\ NoExit
    /\ UNCHANGED <<output_file_writer, all_variants_out, sequences,
                   insert_arg, all_inserted_variants, coverage_avg, reads_to_sample,
                   cfgVars, vcfVars, bedVars, chromVars, spanVars, winVars, harnessVars>>

\* a bug: the last window is flushed like the others
BamMaxAlwaysNextStart(last, ns, e) == ns

\* bam_max of the flush that ends the window
BamMax(last, ns, e) == IF ~last THEN ns ELSE e + 1

FlushBuffers ==
    /\ pc = "reads"
    /\ k >= reads_to_sample
    /\ calls' = Append(calls, Call("flush", chrom_i, <<>>, BamMax(is_last_time, next_start, end),
                                   <<>>, {}, None, None, <<>>))
    /\ pc' = "close"
    /\ UNCHANGED <<exit_code, exit_msg, rng, output_file_writer, all_variants_out, sequences,
                   cfgVars, vcfVars, bedVars, readVars, chromVars, spanVars, winVars,
                   sampleVars, harnessVars>>

\* "tally up all the variants", "prepare indices of next window"
CloseWindow ==
    /\ pc = "close"
    /\ all_variants_out' = all_variants_out \cup Range(all_inserted_variants)
    /\ start' = next_start
    /\ end' = next_end
    /\ IF is_last_time
       THEN pc' = "span_loop" /\ UNCHANGED is_last_time
       ELSE pc' = "window" /\ is_last_time' = (next_end >= final_position)
    /\ UNCHANGED <<exit_code, exit_msg, rng, output_file_writer, calls, sequences,
                   vars_from_prev_overlap, v_index_from_prev, next_start, next_end,
                   vars_in_window, cov_sum, target_hits,
                   cfgVars, vcfVars, bedVars, readVars, chromVars, spanVars, sampleVars,
                   harnessVars>>

(* ------------------------------------------------------------------ *)
(* The end of a contig and of the run                                   *)
(* ------------------------------------------------------------------ *)
BaseRank(b) == CASE b = "A" -> 1 [] b = "C" -> 2 [] b = "G" -> 3 [] b = "T" -> 4 [] OTHER -> 5

\* the order of sorted() on the variant tuples of the model
VarKey(v) == <<v[1], BaseRank(v[2][1]), BaseRank(v[3][1][1]), v[4], v[5]>>
RECURSIVE LexLess(_, _)
LexLess(a, b) ==
    IF a = <<>> THEN b # <<>>
    ELSE IF b = <<>> THEN FALSE
    ELSE IF a[1] # b[1] THEN a[1] < b[1]
    ELSE LexLess(Tail(a), Tail(b))

\* sorted(all_variants_out.keys())
RECURSIVE SortedVariants(_)
SortedVariants(S) ==
    IF S = {} THEN <<>>
    ELSE LET m == CHOOSE v \in S : \A w \in S \ {v} : LexLess(VarKey(v), VarKey(w))
         IN  <<m>> \o SortedVariants(S \ {m})

\* a bug: the 0-based position is written
VcfCallsZeroBased(ci, S) ==
    LET srt == SortedVariants(S)
    IN  [n \in 1..Len(srt) |->
            Call("vcf", ci, <<>>, srt[n][1], <<>>, {}, None, None,
                 <<srt[n][2], srt[n][3], srt[n][5]>>)]

\* the write_vcf_record calls of a contig
VcfCalls(ci, S) ==
    LET srt == SortedVariants(S)
    IN  [n \in 1..Len(srt) |->
            Call("vcf", ci, <<>>, srt[n][1] + 1, <<>>, {}, None, None,
                 <<srt[n][2], srt[n][3], srt[n][5]>>)]

EndChrom ==
    /\ pc = "span_loop"
    /\ span_i >= Len(n_regions)
    /\ calls' = IF save_vcf THEN calls \o VcfCalls(chrom_i, all_variants_out) ELSE calls
    /\ pc' = "chrom_loop"
    /\ UNCHANGED <<exit_code, exit_msg, rng, output_file_writer, all_variants_out, sequences,
                   cfgVars, vcfVars, bedVars, readVars, chromVars, spanVars, winVars,
                   sampleVars, harnessVars>>

\* "write unmapped reads to bam file"
UnmappedCalls(bam, queue, paired) ==
    IF bam /\ Len(queue) > 0
    THEN [n \in 1..Len(queue) |->
             Call("bam", 0 - 1, queue[n][1], 0, <<queue[n][2][2]>>, queue[n][3],
                  IF paired THEN 0 ELSE None, 0, <<>>)]
    ELSE <<>>

Finish ==
    /\ pc = "chrom_loop"
    /\ chrom_i >= Len(ref_index)
    /\ calls' = calls \o UnmappedCalls(save_bam, unmapped_records, paired_end)
    /\ Exit(0, "")
    /\ UNCHANGED <<rng, output_file_writer, all_variants_out, sequences,
                   cfgVars, vcfVars, bedVars, readVars, chromVars, spanVars, winVars,
                   sampleVars, harnessVars>>

(* ------------------------------------------------------------------ *)
(* The specifications                                                   *)
(* ------------------------------------------------------------------ *)
Next == CheckInputs \/ LoadModels \/ IngestVcf \/ ValidateVcf \/ InitOutput
        \/ StartChrom \/ StartSpan \/ OpenWindow \/ SkipWindow \/ BuildContainer
        \/ InsertAndBudget \/ SampleRead \/ FlushBuffers \/ CloseWindow
        \/ EndChrom \/ Finish

Spec == Init /\ [][Next]_vars

\* main is started a second time on the same command line and the same input
\* files; the calls of the first run are kept for the comparison
SecondRun ==
    /\ pc = "exit"
    /\ run = 1
    /\ run' = 2
    /\ first_calls' = calls
    /\ pc' = "check_inputs" /\ exit_code' = None /\ exit_msg' = "" /\ args' = args
    /\ no_fastq' = args.no_fastq /\ only_vcf' = FALSE /\ paired_end' = FALSE
    /\ rng_seed' = args.rng /\ rng' = 0 /\ se_rate' = args.E /\ mut_rate' = args.M
    /\ fragment_size' = args.pe[1] /\ fraglen_distribution' = <<>> /\ gc_scale_val' = 0
    /\ input_variants' = <<>> /\ printed_warning' = FALSE /\ n_skipped' = <<>>
    /\ vchrom' = 1
    /\ target_regions' = <<>> /\ discard_regions' = <<>>
    /\ output_file_writer' = FALSE /\ calls' = <<>>
    /\ read_name_count' = 1 /\ unmapped_records' = <<>>
    /\ chrom_i' = 0 /\ n_regions' = <<>> /\ valid_variants_from_vcf' = <<>>
    /\ all_variants_out' = {}
    /\ sequences' = [made |-> FALSE, updates |-> 0, window |-> <<0, 0>>]
    /\ target_size' = 0 /\ overlap' = 0 /\ overlap_min_window_size' = 0
    /\ span_i' = 0 /\ initial_position' = 0 /\ final_position' = 0
    /\ base_pair_distance' = 0
    /\ start' = 0 /\ end' = 0 /\ vars_from_prev_overlap' = <<>> /\ v_index_from_prev' = 0
    /\ is_last_time' = FALSE /\ next_start' = 0 /\ next_end' = 0 /\ vars_in_window' = <<>>
    /\ insert_arg' = <<>> /\ all_inserted_variants' = <<>>
    /\ cov_sum' = 0 /\ target_hits' = 0 /\ coverage_avg' = None /\ reads_to_sample' = 0
    /\ k' = 0

\* main runs to its end: a step is taken whenever one is possible
SpecLive == Spec /\ WF_vars(Next)

NextTwoRuns == Next \/ SecondRun

SpecTwoRuns == Init /\ [][NextTwoRuns]_vars

(* ------------------------------------------------------------------ *)
(* The window scheduler applied to collected input variants             *)
(* ------------------------------------------------------------------ *)
\* one row of valid_variants_from_vcf: (position, ref allele, alt alleles)
WinVar(p, rl, al) == <<p, [i \in 1..rl |-> "A"], << [i \in 1..al |-> "C"] >> >>

\* lists of valid input variants of the contig, sorted by position
WinVarLists ==
    {<<WinVar(p, s[1], s[2])>> :
        p \in {200, 12380, 12397, 12399, 12450, 12499, 24000, 24890, 24897, 24899,
               24950, 24999},
        s \in {<<1, 1>>, <<4, 1>>, <<1, 9>>}}
    \cup {<<WinVar(p, 1, 1), WinVar(p + 5, 21, 1)>> : p \in {12390, 24940}}

\* the runs whose windows are opened: one samples them, one skips them all
WindowArgs == {BaseArgs, [BaseArgs EXCEPT !.discard_offtarget = TRUE]}

\* the state in which the window loop of the first span of the first contig
\* begins, with vv as the contig's list of valid input variants
WindowStart(a, vv) ==
    /\ pc = "window" /\ exit_code = None /\ exit_msg = "" /\ args = a
    /\ no_fastq = a.no_fastq /\ only_vcf = FALSE /\ paired_end = FALSE
    /\ rng_seed = a.rng /\ rng = RandomSeed(a.rng) /\ se_rate = None /\ mut_rate = None
    /\ fragment_size = None /\ fraglen_distribution = <<>> /\ gc_scale_val = 100
    /\ input_variants = <<>> /\ printed_warning = FALSE /\ n_skipped = <<>> /\ vchrom = 1
    /\ target_regions = parse_bed(a.tr) /\ discard_regions = parse_bed(a.dr)
    /\ output_file_writer = TRUE /\ calls = <<>>
    /\ read_name_count = 1 /\ unmapped_records = <<>>
    /\ chrom_i = 1 /\ n_regions = FindNonN(ref_index[1], NHandlingLen)
    /\ valid_variants_from_vcf = vv
    /\ all_variants_out = {} /\ sequences = [made |-> FALSE, updates |-> 0, window |-> <<0, 0>>]
    /\ target_size = TargetSize /\ overlap = Overlap
    /\ overlap_min_window_size = OverlapMinWindowSize
    /\ span_i = 1 /\ initial_position = n_regions[1][1] /\ final_position = n_regions[1][2]
    /\ base_pair_distance = BasePairDistance(initial_position, final_position, target_size)
    /\ start = initial_position
    /\ end = Min2(initial_position + base_pair_distance, final_position)
    /\ vars_from_prev_overlap = <<>> /\ v_index_from_prev = 0
    /\ is_last_time = FALSE /\ next_start = 0 /\ next_end = 0 /\ vars_in_window = <<>>
    /\ insert_arg = <<>> /\ all_inserted_variants = <<>>
    /\ cov_sum = 0 /\ target_hits = 0 /\ coverage_avg = None /\ reads_to_sample = 0 /\ k = 0

InitWindow ==
    (\E a \in WindowArgs : \E vv \in WinVarLists : WindowStart(a, vv))
    /\ run = 1 /\ first_calls = <<>>

\* the window scheduler alone: a window is opened, and a skipped one is left
NextWindow == OpenWindow \/ SkipWindow

SpecWindow == InitWindow /\ [][NextWindow]_vars

-----------------------------------------------------------------------------
\* Properties of the output call sequence

\* the write_bam_record calls made inside the window loops
InLoopBam(i) == calls[i].op = "bam" /\ calls[i].ctg >= 0

\* index of the last flush_buffers call, 0 when there is none
LastFlush ==
    LET fs == {i \in 1..Len(calls) : calls[i].op = "flush"}
    IN  IF fs = {} THEN 0 ELSE CHOOSE i \in fs : \A j \in fs : j <= i

\* C1: two complete runs with the same arguments and the same --rng value
\* other than -1 make the same sequence of write_fastq_record,
\* write_bam_record, write_vcf_record and flush_buffers calls.
C1_SameSeedSameCalls ==
    (run = 2 /\ pc = "exit" /\ args.rng # 0 - 1) => calls = first_calls

C1_Witness ==
    /\ run = 2 /\ pc = "exit" /\ exit_code = 0 /\ args.rng # 0 - 1
    /\ calls = first_calls
    /\ \E i \in 1..Len(calls) : calls[i].op = "fastq"
    /\ \E i \in 1..Len(calls) : InLoopBam(i)
    /\ \E i \in 1..Len(calls) : calls[i].op = "vcf"
    /\ \E i \in 1..Len(calls) : calls[i].op = "flush"

\* C2 as stated: between two flushes, the BAM records of one contig are
\* written in non-decreasing position order.
C2_PositionsNonDecreasing ==
    \A i, j \in 1..Len(calls) :
        (/\ i < j
         /\ InLoopBam(i) /\ InLoopBam(j)
         /\ calls[i].ctg = calls[j].ctg
         /\ \A m \in i..j : calls[m].op # "flush")
        => calls[i].pos <= calls[j].pos

\* C2 amended: a BAM record is never written below the bam_max of an earlier
\* flush of its contig, and the records written since the last flush all lie
\* at or after the start of the window being sampled; within a window they
\* are written in sampling order, not position order.
C2_PendingAtOrAfterWindowStart ==
    /\ \A i, j \in 1..Len(calls) :
           (/\ i < j /\ calls[i].op = "flush" /\ InLoopBam(j)
            /\ calls[i].ctg = calls[j].ctg)
           => calls[j].pos >= calls[i].pos
    /\ pc = "reads" =>
           \A i \in (LastFlush + 1)..Len(calls) :
               InLoopBam(i) => (calls[i].ctg = chrom_i /\ calls[i].pos >= start)

C2_Witness ==
    /\ pc = "reads" /\ start > 0
    /\ \E i, j \in (LastFlush + 1)..Len(calls) :
           /\ i < j /\ InLoopBam(i) /\ InLoopBam(j)
           /\ calls[i].pos > calls[j].pos

\* C3: a read whose mates are all unmapped is never written to the BAM inside
\* the window loop; it is queued, and after the loops over all contigs the
\* queue is written in queue order with contig index -1, position 0 and
\* mapping quality 0.
C3_UnmappedWrittenLast ==
    /\ \A i \in 1..Len(calls) : InLoopBam(i) => calls[i].pos # None
    /\ \A q \in 1..Len(unmapped_records) :
           /\ unmapped_records[q][2][1] = None
           /\ \A i \in 1..Len(calls) :
                  InLoopBam(i) => calls[i].name # SubSeq(unmapped_records[q][1], 1, 2)
    /\ save_bam =>
           \A i \in 1..Len(calls) :
               (/\ calls[i].op = "fastq"
                /\ \A j \in 1..Len(calls) : InLoopBam(j) => calls[j].name # calls[i].name)
               => \E q \in 1..Len(unmapped_records) :
                      unmapped_records[q][1] = Append(calls[i].name, 1)
    /\ ~(pc = "exit" /\ exit_code = 0) =>
           \A i \in 1..Len(calls) : calls[i].ctg >= 0
    /\ (pc = "exit" /\ exit_code = 0 /\ save_bam) =>
           LET n == Len(unmapped_records)
               m == Len(calls)
           IN  /\ m >= n
               /\ \A i \in 1..(m - n) : calls[i].ctg >= 0
               /\ \A q \in 1..n :
                      /\ calls[m - n + q].op = "bam"
                      /\ calls[m - n + q].ctg = 0 - 1
                      /\ calls[m - n + q].name = unmapped_records[q][1]
                      /\ calls[m - n + q].pos = 0
                      /\ calls[m - n + q].mapq = 0

C3_Witness ==
    /\ pc = "exit" /\ exit_code = 0 /\ save_bam
    /\ Len(unmapped_records) > 1
    /\ \E i \in 1..Len(calls) : InLoopBam(i)
    /\ calls[Len(calls)].ctg = 0 - 1

\* C4 as stated: every validated input-VCF record of the contig with
\* start < POS < end in a window that is not skipped is handed to
\* insert_mutations for that window.
C4_InputVariantsInserted ==
    pc \in {"reads", "close"} =>
        \A r \in 1..Len(input_variants) :
            (/\ input_variants[r].CHROM = chrom
             /\ start < input_variants[r].POS
             /\ input_variants[r].POS < end)
            => \E n \in 1..Len(insert_arg) :
                   /\ insert_arg[n][1] = input_variants[r].POS - 1
                   /\ insert_arg[n][2] = input_variants[r].REF

\* C5 as stated: after the input VCF is read no record of a contig absent
\* from the reference remains.
C5_AbsentContigsDropped ==
    pc = "init_output" =>
        \A r \in 1..Len(input_variants) :
            input_variants[r].CHROM \in Range(reference_chromosomes)

\* the three checks of the validation loop, each on its own
RefMismatch(row, ctg) == RSeq(row, ctg) # row.REF

RefHasN(row, ctg) == "N" \in Range(RSeq(row, ctg))

AltNotAllowed(row) ==
    \E a \in 1..Len(row.alt_split) :
        \E n \in 1..Len(row.alt_split[a]) : row.alt_split[a][n] \notin ALLOWED_NUCL

RowsOfChrom(rows, name) == SelectSeq(rows, LAMBDA row : row.CHROM = name)

CountRows(rows, P(_)) == Len(SelectSeq(rows, P))

\* C6: a record of a reference contig is dropped exactly when it fails one of
\* the three checks (REF mismatch, N in the reference slice, alt allele outside
\* ACGT); each dropped record is counted once, under the first check it fails
\* in that order, and the records passing all three are kept unchanged.
C6_ValidationBuckets ==
    (pc = "init_output" /\ args.v # "none") =>
        \A c \in 1..Len(ref_index) :
            LET ctg == ref_index[c]
                name == ctg.name
                orig == RowsOfChrom(VcfPool[args.v], name)
            IN  /\ RowsOfChrom(input_variants, name)
                     = SelectSeq(orig, LAMBDA row : /\ ~RefMismatch(row, ctg)
                                                    /\ ~RefHasN(row, ctg)
                                                    /\ ~AltNotAllowed(row))
                /\ n_skipped[c][1] = CountRows(orig, LAMBDA row : RefMismatch(row, ctg))
                /\ n_skipped[c][2] = CountRows(orig, LAMBDA row : /\ ~RefMismatch(row, ctg)
                                                                 /\ RefHasN(row, ctg))
                /\ n_skipped[c][3] = CountRows(orig, LAMBDA row : /\ ~RefMismatch(row, ctg)
                                                                 /\ ~RefHasN(row, ctg)
                                                                 /\ AltNotAllowed(row))

C6_Witness ==
    /\ pc = "init_output" /\ args.v = "vcf1"
    /\ n_skipped[1][1] > 1 /\ n_skipped[1][2] > 1 /\ n_skipped[1][3] > 0
    /\ Len(input_variants) > 1

\* C7: a run that ends with an input-validation or model-load failure exits
\* with code 1 before the OutputFileWriter is created and has written nothing;
\* nothing is ever written without the writer.
C7_FailBeforeOutput ==
    /\ (pc = "exit" /\ exit_msg \in {"validation", "model"}) =>
           (exit_code = 1 /\ ~output_file_writer /\ calls = <<>>)
    /\ (pc = "exit" /\ ~output_file_writer) =>
           (exit_code = 1 /\ exit_msg \in {"validation", "model"})
    /\ ~output_file_writer => calls = <<>>

C7_Witness ==
    /\ pc = "exit" /\ exit_msg = "model" /\ exit_code = 1
    /\ ~output_file_writer /\ calls = <<>>

\* the documented ranges; -E, -M and -N are supplied when they differ from
\* their defaults
OutOfDocumentedRange(a) ==
    \/ a.R < 10 \/ a.R > 1000000
    \/ a.c < 0 \/ a.c > 100000000
    \/ a.p < 1 \/ a.p > 100
    \/ a.to < 0 \/ a.to > 100
    \/ (a.E # 0 - 100 /\ (a.E < 0 \/ a.E > 30))
    \/ (a.M # 0 - 100 /\ (a.M < 0 \/ a.M > 30))
    \/ (a.N # 0 - 1 /\ (a.N < 1 \/ a.N > 40))

\* C8 as stated: a run with a numeric option outside its documented range
\* never gets past validation and ends with an error.
C8_OutOfRangeRejected ==
    OutOfDocumentedRange(args) =>
        \/ pc \in {"check_inputs", "load_models"}
        \/ (pc = "exit" /\ exit_code = 1 /\ exit_msg = "validation")

\* C9: every window for which the container is built and reads are sampled
\* has start < end and is at least overlap_min_window_size wide: the largest
\* fragment length + 10 in paired-end mode, read_len + 10 in single-end mode.
C9_SampledWindowWideEnough ==
    pc \in {"build", "insert", "reads", "close"} =>
        /\ start < end
        /\ end - start >= IF paired_end THEN SeqMax(fraglen_distribution) + 10
                          ELSE read_len + 10

C9_Witness ==
    /\ pc = "reads" /\ paired_end /\ k > 0
    /\ end - start >= SeqMax(fraglen_distribution) + 10
    /\ start > 0

\* C10: when a window of a span is followed by another, skipped or sampled,
\* the next window starts at the end of this one minus overlap (the mean
\* fragment size in paired-end mode, read_len in single-end mode) and ends no
\* earlier, so the two share exactly overlap bases.
C10_NextStartsOverlapBeforeEnd ==
    [][(pc \in {"skip", "close"} /\ pc' = "window") =>
          /\ start' = end - (IF paired_end THEN fragment_size ELSE read_len)
          /\ end' >= end
          /\ start' >= start]_vars

C10_Witness ==
    /\ pc = "window" /\ start > initial_position
    /\ start = initial_position + base_pair_distance - overlap

\* window_span * coverage * avg_coverage_multiplier and k * read_len of the
\* window, scaled to integers (coverage and the multiplier are in hundredths)
BudgetNumerator ==
    IF force_coverage THEN 100 * (end - start) * coverage
    ELSE (end - start) * coverage * coverage_avg

BudgetDenominator == 10000 * (IF paired_end THEN 2 ELSE 1) * read_len

CeilDiv(n, d) == (n + d - 1) \div d

\* C11 as stated: the number of sample_read attempts of a sampled window is
\* the ceiling of span * coverage * multiplier / (k * read_len), plus 1.
C11_AttemptsCeilPlusOne ==
    (pc = "close" /\ ~only_vcf) =>
        k = CeilDiv(BudgetNumerator, BudgetDenominator) + 1

\* C11 amended: the number of sample_read attempts of a sampled window is the
\* quotient span * coverage * multiplier / (k * read_len) rounded down, plus 1
\* (k = 2 paired-end, 1 single-end; multiplier 1 under force_coverage).
C11_AttemptsFloorPlusOne ==
    /\ (pc = "reads" /\ ~only_vcf) =>
           /\ k <= reads_to_sample
           /\ (reads_to_sample - 1) * BudgetDenominator <= BudgetNumerator
           /\ BudgetNumerator < reads_to_sample * BudgetDenominator
    /\ (pc = "close" /\ ~only_vcf) =>
           /\ k = reads_to_sample
           /\ (k - 1) * BudgetDenominator <= BudgetNumerator
           /\ BudgetNumerator < k * BudgetDenominator

C11_Witness ==
    /\ pc = "close" /\ ~only_vcf /\ paired_end /\ ~force_coverage
    /\ k = reads_to_sample /\ k > 1
    /\ BudgetNumerator % BudgetDenominator # 0

\* some CIGAR of some ploid of the container does not have read_len operations
SomeCigarOffLength ==
    LET all_cigar == AllCigar(ploids, read_len)
    IN  \E q \in 1..Len(all_cigar) :
            \E n \in 1..Len(all_cigar[q]) : all_cigar[q][n] # read_len

\* C12 as stated: once the container has been created or updated, the run is
\* aborted by the CIGAR check exactly when some CIGAR of some ploid has a
\* length other than read_len, whatever read_len and the ploidy are.
C12_AbortIffCigarOffLength ==
    sequences.made =>
        ((pc = "exit" /\ exit_msg \in {"cigar", "IndexError"}) <=> SomeCigarOffLength)

\* the write_vcf_record calls made so far for contig index ci, in call order
VcfCallsOf(ci) == SelectSeq(calls, LAMBDA c : c.op = "vcf" /\ c.ctg = ci)

\* what a ledger entry is written as: 1-based position, ref, alts, genotype
WrittenAs(v) == <<v[1] + 1, <<v[2], v[3], v[5]>> >>

FastqCallsMade == SelectSeq(calls, LAMBDA c : c.op = "fastq")

\* what an emitted read or pair advances the counter by
NameStep == IF paired_end THEN 2 ELSE 1

\* C14: the read-name counter never decreases; an emitted single-end read
\* advances it by 1 and an emitted pair by 2, a dropped attempt leaves it
\* unchanged, so no two emitted reads or pairs share a counter value and the
\* names are strictly increasing in emission order.
C14_ReadNameCounter ==
    /\ [](output_file_writer =>
            /\ \A i \in 1..Len(calls) :
                   calls[i].op \in {"fastq", "bam"} /\ calls[i].ctg >= 0
                   => (calls[i].name[2] >= 1 /\ calls[i].name[2] < read_name_count)
            /\ \A q \in 1..Len(unmapped_records) :
                   unmapped_records[q][1][2] < read_name_count
            /\ ~no_fastq =>
                   LET fq == FastqCallsMade
                   IN  /\ read_name_count = 1 + NameStep * Len(fq)
                       /\ \A n \in 1..Len(fq) : fq[n].name[2] = 1 + NameStep * (n - 1))
    /\ [][/\ read_name_count' >= read_name_count
          /\ read_name_count' # read_name_count =>
                 /\ pc = "reads" /\ k' = k + 1
                 /\ read_name_count' = read_name_count + NameStep
          /\ (calls' # calls /\ pc = "reads" /\ k' = k + 1) =>
                 read_name_count' = read_name_count + NameStep]_vars

C14_Witness ==
    /\ paired_end /\ ~no_fastq /\ pc = "close"
    /\ Len(FastqCallsMade) >= 2
    /\ k > 1 /\ sequences.updates > 0
    /\ read_name_count = 1 + 2 * Len(FastqCallsMade)

\* C15: the window loop of every span terminates: each iteration goes to the
\* skip path or the sample path, the start of the next window is strictly
\* larger, the loop is left only with is_last_time set, and every window that
\* is opened leads to the end of its span (or to the end of the run when a
\* fatal error stops it).
C15_WindowLoopTerminates ==
    /\ [][/\ pc = "window" => pc' \in {"skip", "build"}
          /\ (pc \in {"skip", "close"} /\ pc' = "window") =>
                 (start' > start /\ start' < final_position)
          /\ (pc \in {"skip", "close"} /\ pc' = "span_loop") => is_last_time
          /\ (pc \in {"skip", "close"}) => pc' \in {"window", "span_loop"}]_vars
    /\ (pc = "window") ~> (pc \in {"span_loop", "exit"})

C15_Witness ==
    /\ pc = "span_loop" /\ span_i >= 1 /\ is_last_time
    /\ sequences.updates > 0
    /\ start > initial_position

\* the read the next sample_read call returns, with reference positions
SampledRead ==
    LET fl == IF paired_end THEN FraglenSample(rng, fraglen_distribution)
              ELSE [rng |-> rng, val |-> 0]
    IN  ShiftByStart(SampleReadResult(fl.rng, end - start, read_len, paired_end, fl.val).data,
                     start)

\* some base of some mate lies inside a targeted interval
OverlapsTarget(regions, data) ==
    \E m \in 1..Len(data) :
        /\ data[m][1] # None
        /\ \E b \in data[m][1]..(data[m][1] + read_len - 1) : Bisect(regions, b) % 2 = 0

\* C16 as stated: with discard-offtarget and a target BED, a sampled read is
\* emitted exactly when some base of it lies inside a targeted interval.
C16_EmittedIffOverlapsTarget ==
    [][(/\ pc = "reads" /\ pc' = "reads" /\ k' = k + 1
        /\ off_target_discard /\ args.tr # "none" /\ args.dr = "none"
        /\ SampledRead # <<>>)
       => (read_name_count' # read_name_count
             <=> OverlapsTarget(target_regions[chrom], SampledRead))]_vars

\* the positions of the current window inside the i-th targeted interval
InInterval(regions, i) ==
    Max2(start, regions[2 * i])..(Min2(end, regions[2 * i + 1]) - 1)

\* the number of in-target positions of the current window
InTargetCount ==
    LET regions == target_regions[chrom]
    IN  Cardinality(UNION {InInterval(regions, i) : i \in 1..((Len(regions) - 1) \div 2)})

\* the sum of the coverage vector of the current window, in hundredths: 1.0
\* everywhere without a target BED, else 1.0 in targets and the off-target
\* scalar elsewhere
CoverageVectorSum ==
    IF args.tr = "none" THEN 100 * (end - start)
    ELSE 100 * InTargetCount + off_target_scalar * ((end - start) - InTargetCount)

\* C17: a window is skipped exactly when the sum of its coverage vector is
\* below 50, or its width is below overlap_min_window_size, or
\* discard-offtarget is set and at most read_len of its positions are in
\* target; a skipped window touches neither the container nor the outputs,
\* every other window goes on to the container.
C17_SkipExactlyWhen ==
    /\ [](pc \in {"skip", "build"} =>
            (pc = "skip" <=>
                \/ CoverageVectorSum < 100 * 50
                \/ end - start < (IF paired_end THEN SeqMax(fraglen_distribution) + 10
                                  ELSE read_len + 10)
                \/ (off_target_discard /\ InTargetCount <= read_len)))
    /\ [][/\ pc = "skip" =>
                 /\ pc' \in {"window", "span_loop"}
                 /\ UNCHANGED <<sequences, calls, rng, all_variants_out, read_name_count,
                                unmapped_records>>
          /\ pc = "build" => sequences' # sequences]_vars

C17_Witness ==
    /\ pc = "skip" /\ off_target_discard /\ args.tr # "none"
    /\ InTargetCount <= read_len /\ InTargetCount > 0
    /\ CoverageVectorSum >= 100 * 50

\* C18: the carry list handed to insert_mutations of a window is empty for the
\* first window of a span and after a skipped window, and after a sampled
\* window it is exactly the variants that window applied with
\* pos >= end - overlap - 1 (end being that window's end); nothing else
\* changes it, so it never crosses a span or a contig.
C18_CarryFromPrecedingWindow ==
    [][/\ (pc = "span_loop" /\ pc' = "window") => vars_from_prev_overlap' = <<>>
       /\ (pc = "skip" /\ pc' = "window") => vars_from_prev_overlap' = <<>>
       /\ (pc = "insert") =>
              /\ insert_arg' = vars_from_prev_overlap \o vars_in_window
              /\ \A n \in 1..Len(vars_from_prev_overlap) :
                     insert_arg'[n] = vars_from_prev_overlap[n]
              /\ \A n \in 1..Len(vars_from_prev_overlap') :
                     /\ vars_from_prev_overlap'[n] \in Range(all_inserted_variants')
                     /\ vars_from_prev_overlap'[n][1] >= end - overlap - 1
              /\ \A n \in 1..Len(all_inserted_variants') :
                     all_inserted_variants'[n][1] >= end - overlap - 1
                     => all_inserted_variants'[n] \in Range(vars_from_prev_overlap')
       /\ (pc \in {"window", "build", "reads", "close"}) =>
              vars_from_prev_overlap' = vars_from_prev_overlap
       /\ (pc = "chrom_loop" /\ pc' = "span_loop") => vars_from_prev_overlap' = vars_from_prev_overlap
      ]_vars

C18_Witness ==
    /\ pc = "reads" /\ sequences.updates > 0
    /\ Len(insert_arg) > 0
    /\ insert_arg[1][1] >= start - 1
    /\ Len(all_inserted_variants) > Len(vars_from_prev_overlap)

\* the number of flush_buffers calls in a call sequence
FlushCount(cs) == Len(SelectSeq(cs, LAMBDA c : c.op = "flush"))

\* C19: when reads are generated, a sampled window ends with exactly one
\* flush_buffers call, made after all its reads were written, with
\* bam_max = next_start = end - overlap when the window is not the last of
\* its span and bam_max = end + 1 when it is; a skipped window flushes nothing.
C19_OneFlushPerSampledWindow ==
    [][/\ (pc = "insert" /\ ~only_vcf) => (pc' = "reads" /\ calls' = calls)
       /\ (pc = "insert" /\ only_vcf) => (pc' = "close" /\ calls' = calls)
       /\ (pc = "reads") => pc' \in {"reads", "close", "exit"}
       /\ (pc = "reads" /\ pc' # "close") => FlushCount(calls') = FlushCount(calls)
       /\ (pc = "reads" /\ pc' = "close") =>
              /\ k = reads_to_sample
              /\ Len(calls') = Len(calls) + 1
              /\ SubSeq(calls', 1, Len(calls)) = calls
              /\ calls'[Len(calls')].op = "flush"
              /\ calls'[Len(calls')].pos =
                     IF is_last_time THEN end + 1
                     ELSE end - (IF paired_end THEN fragment_size ELSE read_len)
              /\ ~is_last_time => calls'[Len(calls')].pos = next_start
       /\ (pc \in {"window", "build", "skip", "close"}) => calls' = calls
       /\ (pc \in {"span_loop", "chrom_loop"}) => FlushCount(calls') = FlushCount(calls)
      ]_vars

C19_Witness ==
    /\ pc = "close" /\ is_last_time /\ ~only_vcf
    /\ FlushCount(calls) >= 2
    /\ calls[Len(calls)].op = "flush" /\ calls[Len(calls)].pos = end + 1
    /\ calls[Len(calls) - 1].op = "bam"

\* the write_fastq_record calls made since the last flush
FastqSinceFlush ==
    Cardinality({i \in (LastFlush + 1)..Len(calls) : calls[i].op = "fastq"})

\* C20: an attempt for which sample_read returns None writes nothing, queues
\* nothing, leaves the read-name counter alone and does not stop the run; it
\* uses up its attempt, so a window makes exactly reads_to_sample attempts and
\* emits at most that many reads.
C20_NoneAttemptDropped ==
    /\ [](pc = "reads" =>
            /\ k <= reads_to_sample
            /\ FastqSinceFlush <= k)
    /\ [][/\ (pc = "reads" /\ k < reads_to_sample /\ SampledRead = <<>>) =>
                 /\ pc' = "reads" /\ exit_code' = exit_code
                 /\ k' = k + 1
                 /\ UNCHANGED <<calls, unmapped_records, read_name_count, reads_to_sample>>
          /\ (pc = "reads" /\ pc' = "reads") =>
                 (k' = k + 1 /\ reads_to_sample' = reads_to_sample)
          /\ (pc = "reads" /\ pc' = "close") => k = reads_to_sample]_vars

C20_Witness ==
    /\ pc = "reads" /\ k < reads_to_sample /\ SampledRead = <<>>
    /\ reads_to_sample > 1
    /\ read_name_count > 1 /\ Len(calls) > 0
\* a window has just been opened: its end has been settled
WindowOpened == pc \in {"skip", "build"}

\* the collected variant row keeps its buffer and the overlap before e
BufferedBefore(row, e) == row[1] + BufferNeeded(row) + overlap + 2 <= e

BuiltWindows ==
    Cardinality({i \in 1..Len(calls) : calls[i].op = "flush" /\ calls[i].ctg = chrom_i})
    + (IF pc \in {"insert", "reads"} THEN 1 ELSE 0)

\* C22: within a contig the container exists exactly from the first
\* non-skipped window on, it was constructed at that window and updated once
\* for every later non-skipped window, of whatever span; a new contig starts
\* without one, and a contig without a non-skipped window never has one
C22_ContainerConstructedOncePerContig ==
    (/\ pc \in {"chrom_loop", "span_loop", "window", "skip", "build", "insert", "reads", "close"}
     /\ chrom_i >= 1 /\ ~only_vcf) =>
        /\ sequences.made <=> BuiltWindows >= 1
        /\ sequences.made => sequences.updates = BuiltWindows - 1

\* the second contig has constructed its own container at its first
\* non-skipped window, after the first contig updated the one it had made
C22_Witness ==
    /\ chrom_i = 2 /\ pc = "close" /\ ~only_vcf
    /\ sequences.made /\ sequences.updates = 0
    /\ Cardinality({i \in 1..Len(calls) : calls[i].op = "flush" /\ calls[i].ctg = 1}) >= 2

\* the bam_max values of the flush_buffers calls made for contig c before
\* call j
BamMaxBefore(j, c) ==
    {calls[i].pos : i \in {m \in 1..(j - 1) : calls[m].op = "flush" /\ calls[m].ctg = c}}

\* C23: a write_bam_record call of the window loops, for a mapped read or
\* for an unmapped mate written at its mate's position, never carries a
\* position below the bam_max of any flush_buffers call made earlier for its
\* contig, be it of the same span or of an earlier one
C23_NoRecordBelowFlushedBamMax ==
    \A j \in 1..Len(calls) :
        InLoopBam(j) => \A b \in BamMaxBefore(j, calls[j].ctg) : calls[j].pos >= b

\* after a flush of its contig, a pair with an unmapped mate was written,
\* both records at the mapped mate's position
C23_Witness ==
    \E j \in 1..Len(calls) :
        /\ InLoopBam(j) /\ "unmapped" \in calls[j].flag
        /\ \E b \in BamMaxBefore(j, calls[j].ctg) : b > 0 /\ calls[j].pos >= b

\* the window [start, end) has been opened and is being skipped or sampled
InWindow == pc \in {"skip", "build", "insert", "reads", "close"}

\* C24: every window of a span [initial_position, final_position) lies
\* within the span and is not empty, whether it is skipped or sampled; the
\* first window starts at initial_position, every next window starts after
\* the start and not after the end of the one before, and the window after
\* which the span is left ends at final_position: the windows cover the span
C24_WindowsCoverSpan ==
    /\ [](InWindow =>
            /\ initial_position <= start /\ start < end /\ end <= final_position)
    /\ [][/\ (pc = "span_loop" /\ pc' = "window") => start' = initial_position'
          /\ (pc \in {"skip", "close"} /\ pc' = "window") =>
                 (start < start' /\ start' <= end /\ end < final_position)
          /\ (pc \in {"skip", "close"} /\ pc' = "span_loop") => end = final_position]_vars

\* the last of several windows of a span is left, one of them skipped
C24_Witness ==
    /\ pc = "close" /\ is_last_time
    /\ start > initial_position /\ end = final_position
    /\ sequences.updates = 0

\* a discard test is active for the reads of this run
DiscardTestActive == (off_target_discard /\ args.tr # "none") \/ args.dr # "none"

\* C25: with a discard test active, a sampled read or pair with a mate that
\* has no reference position does not end the run: the attempt is counted and
\* the read loop goes on
C25_UnanchoredReadHandled ==
    [][(/\ pc = "reads" /\ k < reads_to_sample /\ DiscardTestActive
        /\ \E m \in 1..Len(SampledRead) : SampledRead[m][1] = None)
       => (pc' = "reads" /\ k' = k + 1 /\ exit_code' = None)]_vars

\* the window loops of a contig without targeted interval (no target BED, or
\* none of its intervals on this contig) in a run with --discard-offtarget
NoTargetsForContig ==
    /\ pc \in {"span_loop", "window", "skip", "build", "insert", "reads", "close"}
    /\ chrom_i >= 1
    /\ args.discard_offtarget
    /\ target_regions[chrom] = <<>>

\* C26: in such a contig every window counts 0 targeted positions and is
\* skipped: no window is sampled, nothing is drawn from the generator, no read
\* is named or written, and the contig ends without a variant written
C26_NoTargetsEveryWindowSkipped ==
    /\ [](NoTargetsForContig =>
            /\ pc \in {"span_loop", "window", "skip"}
            /\ pc = "skip" => target_hits = 0
            /\ ~sequences.made /\ all_variants_out = {}
            /\ \A i \in 1..Len(calls) : calls[i].ctg # chrom_i)
    /\ [][NoTargetsForContig =>
             /\ rng' = rng /\ read_name_count' = read_name_count
             /\ unmapped_records' = unmapped_records
             /\ calls' = calls]_vars

\* the first contig has no targeted interval in the BED of the run and ends
\* after its windows were skipped, with nothing written
C26_Witness ==
    /\ pc = "span_loop" /\ span_i >= Len(n_regions) /\ chrom_i = 1
    /\ args.discard_offtarget /\ args.tr # "none"
    /\ target_regions[chrom] = <<>>
    /\ start > initial_position /\ is_last_time
    /\ calls = <<>>

\* C27: a window that is not skipped, in a run that generates reads, has a
\* read budget of at least 1; with coverage 0 the budget is exactly 1, and
\* the window makes exactly one sample_read attempt before it is flushed
C27_BudgetAtLeastOne ==
    /\ []((pc = "reads" /\ ~only_vcf) =>
            /\ reads_to_sample >= 1
            /\ cov_sum >= 100 * low_cov_thresh
            /\ coverage = 0 => (reads_to_sample = 1 /\ k <= 1))
    /\ [][(pc = "reads" /\ ~only_vcf /\ coverage = 0) =>
             \/ (k = 0 /\ k' = 1 /\ pc' \in {"reads", "exit"})
             \/ (k = 0 /\ k' = 0 /\ pc' = "exit")
             \/ (k = 1 /\ k' = 1 /\ pc' = "close")]_vars

\* with coverage 0 the single attempt of a window has emitted a read
C27_Witness ==
    /\ pc = "close" /\ ~only_vcf /\ coverage = 0
    /\ reads_to_sample = 1 /\ k = 1
    /\ LastFlush = Len(calls)
    /\ Len(calls) >= 2 /\ calls[Len(calls) - 1].op \in {"fastq", "bam"}
    /\ calls[Len(calls) - 1].ctg = chrom_i

=============================================================================
